---- MODULE Spec2Model ----
(***************************************************************************)
(* A model of ckanserviceprovider/db.py: the jobs, metadata and logs       *)
(* tables, add_pending_job (one transaction), mark_job_as_completed (one   *)
(* autocommitted UPDATE) and get_job (three separate queries), called by   *)
(* concurrent callers against one database.                                *)
(***************************************************************************)
EXTENDS Integers, Sequences, FiniteSets, TLC

(***************************************************************************)
(* Python values.  Every value is a record of one shape, so that any two   *)
(* values can be compared: k is the kind, s the characters of a string or  *)
(* the digit of an integer, items the elements of a list or the            *)
(* alternating keys and values of a dict.  Text is a sequence of           *)
(* one-character strings.                                                  *)
(***************************************************************************)
PyNone == [k |-> "none", s |-> <<>>, items |-> <<>>]
PyStr(chars) == [k |-> "str", s |-> chars, items |-> <<>>]
PyInt(digit) == [k |-> "int", s |-> <<digit>>, items |-> <<>>]
PyList(elems) == [k |-> "list", s |-> <<>>, items |-> elems]
PyDict(kvs) == [k |-> "dict", s |-> <<>>, items |-> kvs]
\* An object json cannot serialise (a set, a datetime, a file ...).
PyObj == [k |-> "obj", s |-> <<>>, items |-> <<>>]
\* What a failed json.loads leaves instead of a value.
PyRaise == [k |-> "raise", s |-> <<>>, items |-> <<>>]

Digits == {"0", "1", "2", "3", "4", "5", "6", "7", "8", "9"}
DigitOf == <<"0", "1", "2", "3", "4", "5", "6", "7", "8", "9">>
Quote == "\""

\* SQL NULL in a text column, and in a DateTime column.
NULL == <<"NULL">>
NullTime == <<>>
\* What json.dumps leaves instead of text when it raises TypeError.
DumpError == <<"TypeError">>

\* Python truthiness, as `not data` and `not metadata` use it.
Truthy(v) ==
  CASE v.k = "none" -> FALSE
    [] v.k = "str" -> v.s # <<>>
    [] v.k = "int" -> v.s # <<"0">>
    [] v.k \in {"list", "dict"} -> v.items # <<>>
    [] OTHER -> TRUE

\* isinstance(value, basestring)
IsBasestring(v) == v.k = "str"

RECURSIVE Join(_, _)
Join(parts, sep) ==
  IF parts = <<>> THEN <<>>
  ELSE IF Len(parts) = 1 THEN parts[1]
  ELSE parts[1] \o sep \o Join(Tail(parts), sep)

IsScalar(v) == v.k \in {"none", "str", "int"}

DumpScalar(v) ==
  CASE v.k = "none" -> <<"n", "u", "l", "l">>
    [] v.k = "int" -> v.s
    [] v.k = "str" -> <<Quote>> \o v.s \o <<Quote>>
    [] OTHER -> DumpError

\* json.dumps with its default separators ", " and ": ".
json_dumps(v) ==
  CASE IsScalar(v) -> DumpScalar(v)
    [] v.k = "list" ->
         IF \E i \in 1..Len(v.items) : ~IsScalar(v.items[i]) THEN DumpError
         ELSE <<"[">> \o Join([i \in 1..Len(v.items) |-> DumpScalar(v.items[i])],
                              <<",", " ">>) \o <<"]">>
    [] v.k = "dict" ->
         IF \E i \in 1..Len(v.items) : ~IsScalar(v.items[i]) THEN DumpError
         ELSE <<"{">> \o Join([i \in 1..(Len(v.items) \div 2) |->
                                 DumpScalar(v.items[2 * i - 1]) \o <<":", " ">>
                                   \o DumpScalar(v.items[2 * i])],
                              <<",", " ">>) \o <<"}">>
    [] OTHER -> DumpError

(***************************************************************************)
(* json.loads: a recursive-descent parser over the text.  A parse is       *)
(* [ok, v, n]: whether it succeeded, the value, the index after it.        *)
(***************************************************************************)
Fail == [ok |-> FALSE, v |-> PyRaise, n |-> 0]

At(t, i) == IF i \in 1..Len(t) THEN t[i] ELSE "EOF"

SkipSpace(t, i) == IF At(t, i) = " " THEN i + 1 ELSE i

ParseScalar(t, i) ==
  CASE At(t, i) \in Digits -> [ok |-> TRUE, v |-> PyInt(t[i]), n |-> i + 1]
    [] At(t, i) = Quote ->
         IF \E j \in (i + 1)..Len(t) : t[j] = Quote
         THEN LET j == CHOOSE j \in (i + 1)..Len(t) :
                         /\ t[j] = Quote
                         /\ \A m \in (i + 1)..(j - 1) : t[m] # Quote
              IN [ok |-> TRUE, v |-> PyStr(SubSeq(t, i + 1, j - 1)), n |-> j + 1]
         ELSE Fail
    [] /\ At(t, i) = "n" /\ At(t, i + 1) = "u"
       /\ At(t, i + 2) = "l" /\ At(t, i + 3) = "l" ->
         [ok |-> TRUE, v |-> PyNone, n |-> i + 4]
    [] OTHER -> Fail

\* The elements after "[" or after a ",": acc holds those parsed so far.
RECURSIVE ParseElems(_, _, _)
ParseElems(t, i, acc) ==
  LET e == ParseScalar(t, SkipSpace(t, i))
  IN IF ~e.ok THEN Fail
     ELSE IF At(t, e.n) = "," THEN ParseElems(t, e.n + 1, Append(acc, e.v))
     ELSE IF At(t, e.n) = "]"
          THEN [ok |-> TRUE, v |-> PyList(Append(acc, e.v)), n |-> e.n + 1]
     ELSE Fail

\* The members after "{" or after a ",".
RECURSIVE ParseMembers(_, _, _)
ParseMembers(t, i, acc) ==
  LET key == ParseScalar(t, SkipSpace(t, i))
  IN IF ~key.ok \/ key.v.k # "str" \/ At(t, key.n) # ":" THEN Fail
     ELSE LET val == ParseScalar(t, SkipSpace(t, key.n + 1))
          IN IF ~val.ok THEN Fail
             ELSE IF At(t, val.n) = ","
                  THEN ParseMembers(t, val.n + 1, acc \o <<key.v, val.v>>)
             ELSE IF At(t, val.n) = "}"
                  THEN [ok |-> TRUE, v |-> PyDict(acc \o <<key.v, val.v>>),
                        n |-> val.n + 1]
             ELSE Fail

ParseValue(t, i) ==
  CASE At(t, i) = "[" ->
         IF At(t, i + 1) = "]" THEN [ok |-> TRUE, v |-> PyList(<<>>), n |-> i + 2]
         ELSE ParseElems(t, i + 1, <<>>)
    [] At(t, i) = "{" ->
         IF At(t, i + 1) = "}" THEN [ok |-> TRUE, v |-> PyDict(<<>>), n |-> i + 2]
         ELSE ParseMembers(t, i + 1, <<>>)
    [] OTHER -> ParseScalar(t, i)

\* json.loads: the value of the whole text, or PyRaise (ValueError).
json_loads(t) ==
  LET r == ParseValue(t, 1)
  IN IF r.ok /\ r.n = Len(t) + 1 THEN r.v ELSE PyRaise


(***************************************************************************)
(* The state.                                                              *)
(***************************************************************************)
VARIABLES
  jobs,         \* the committed rows of the jobs table
  metadata,     \* the committed rows of the metadata table
  logs,         \* the rows of the logs table, in insertion order
  now,          \* the clock datetime.datetime.now() reads
  pc,           \* where each caller is in its call
  args,         \* the arguments of each caller's call
  txJobs,       \* jobs rows a caller's open transaction has inserted
  txMeta,       \* metadata rows a caller's open transaction has inserted
  conns,        \* connections each caller holds open
  fts,          \* mark_job_as_completed's local finished_timestamp
  result_dict,  \* get_job's local result_dict
  ret,          \* how each caller's call ended
  first,        \* history: the arguments of the call that committed each job
  marked,       \* history: the data of the last mark_job_as_completed of each job
  tables,       \* the tables that exist in the database
  hist          \* history: what init and a delete of a job have acted on

vars == <<jobs, metadata, logs, now, pc, args, txJobs, txMeta, conns, fts,
          result_dict, ret, first, marked, tables, hist>>

\* Bounds of the model.
MaxClock == 3
MaxLogs == 2
MaxLeaks == 1

P1 == "p1"
P2 == "p2"
Procs == {P1, P2}

J1 == <<"j">>
J2 == <<"k">>
JobIds == {J1, J2}

\* A metadata argument: None, or a dict (a function from keys to values).
NoDict == [none |-> TRUE, d |-> <<>>]
Dict(f) == [none |-> FALSE, d |-> f]

NoArgs ==
  [op |-> "none", job_id |-> PyNone, job_key |-> PyNone, job_type |-> PyNone,
   api_key |-> PyNone, data |-> PyNone, metadata |-> NoDict, result_url |-> PyNone,
   job_existed |-> FALSE]

CreateArgs(job_id, job_key, job_type, api_key, data, md, result_url) ==
  [op |-> "create", job_id |-> PyStr(job_id), job_key |-> job_key,
   job_type |-> job_type, api_key |-> api_key, data |-> data, metadata |-> md,
   result_url |-> result_url, job_existed |-> FALSE]

CompleteArgs(job_id, data) ==
  [NoArgs EXCEPT !.op = "complete", !.job_id = PyStr(job_id), !.data = data]

GetArgs(job_id) == [NoArgs EXCEPT !.op = "get", !.job_id = PyStr(job_id)]

InitArgs == [NoArgs EXCEPT !.op = "init"]

DropArgs == [NoArgs EXCEPT !.op = "drop_all"]

NoFirst == [set |-> FALSE, a |-> NoArgs, at |-> NullTime]
NoMark == [set |-> FALSE, data |-> PyNone]

\* The tables _METADATA defines, in the order create_all creates them.
AllTables == {"jobs", "metadata", "logs"}

\* History: whether init has run again over stored rows, and the jobs whose
\* delete took metadata rows and log rows with it.
NoHist == [init |-> FALSE, gone |-> {}]

EmptyResult ==
  [job_id |-> PyNone, job_type |-> PyNone, status |-> PyNone, data |-> PyNone,
   error |-> PyNone, requested_timestamp |-> PyNone,
   finished_timestamp |-> PyNone, sent_data |-> PyNone, result_url |-> PyNone,
   api_key |-> PyNone, job_key |-> PyNone, metadata |-> <<>>, logs |-> <<>>]

Init ==
  /\ jobs = {}
  /\ metadata = {}
  /\ logs = <<>>
  /\ now = 1
  /\ pc = [p \in Procs |-> "idle"]
  /\ args = [p \in Procs |-> NoArgs]
  /\ txJobs = [p \in Procs |-> {}]
  /\ txMeta = [p \in Procs |-> {}]
  /\ conns = [p \in Procs |-> 0]
  /\ fts = [p \in Procs |-> NullTime]
  /\ result_dict = [p \in Procs |-> EmptyResult]
  /\ ret = [p \in Procs |-> "none"]
  /\ first = [j \in JobIds |-> NoFirst]
  /\ marked = [j \in JobIds |-> NoMark]
  /\ tables = AllTables
  /\ hist = NoHist

\* datetime.datetime.now()
Now == <<now>>

\* Time passes.
Tick ==
  /\ now < MaxClock
  /\ now' = now + 1
  /\ UNCHANGED <<jobs, metadata, logs, pc, args, txJobs, txMeta, conns, fts,
                 result_dict, ret, first, marked, tables, hist>>

(***************************************************************************)
(* What the database driver does with a Python value bound to a            *)
(* UnicodeText column: None is NULL, a string is its text, an integer is   *)
(* cast to its decimal text, and a dict, list or other object cannot be    *)
(* bound (sqlite3 InterfaceError, psycopg2 "can't adapt type 'dict'").     *)
(***************************************************************************)
BindError == <<"InterfaceError">>

BindText(v) ==
  CASE v.k = "none" -> NULL
    [] v.k \in {"str", "int"} -> v.s
    [] OTHER -> BindError

\* Whether _METADATA.create_all(ENGINE) has created the table and
\* _METADATA.drop_all(ENGINE) has not dropped it: a statement on a table that
\* does not exist fails with OperationalError.
Exists(t) == t \in tables

\* The rows of a table with a job_id.
RowsOf(table, job_id) == {r \in table : r.job_id = job_id}


Pending == <<"pending">>
Complete == <<"complete">>

(***************************************************************************)
(* add_pending_job                                                         *)
(***************************************************************************)
\* if not data: data = {}
DataOf(a) == IF ~Truthy(a.data) THEN PyDict(<<>>) ELSE a.data

\* if not metadata: metadata = {}
MetadataOf(a) ==
  IF a.metadata.none \/ DOMAIN a.metadata.d = {} THEN <<>> ELSE a.metadata.d

\* The row JOBS_TABLE.insert().values(...) inserts at time t.
NewJobRow(a, t) ==
  [job_id |-> BindText(a.job_id),
   job_type |-> BindText(a.job_type),
   status |-> Pending,
   data |-> NULL,
   error |-> NULL,
   requested_timestamp |-> t,
   finished_timestamp |-> NullTime,
   sent_data |-> json_dumps(DataOf(a)),
   result_url |-> BindText(a.result_url),
   api_key |-> BindText(a.api_key),
   job_key |-> BindText(a.job_key)]

\* The value and type a metadata value is stored with.
MetaValue(v) == IF ~IsBasestring(v) THEN json_dumps(v) ELSE v.s
MetaType(v) == IF ~IsBasestring(v) THEN <<"json">> ELSE <<"string">>

\* The inserts list built from metadata.items().
Inserts(a) ==
  LET m == MetadataOf(a)
  IN {[job_id |-> BindText(a.job_id), key |-> key, value |-> MetaValue(m[key]),
       type |-> MetaType(m[key])] : key \in DOMAIN m}

\* A caller starts a call.  job_existed is history: whether the job row was
\* there when the call began.
Call(p, a) ==
  /\ pc[p] = "idle"
  /\ args' = [args EXCEPT ![p] =
                [a EXCEPT !.job_existed = RowsOf(jobs, BindText(a.job_id)) # {}]]
  /\ pc' = [pc EXCEPT ![p] = CASE a.op = "create" -> "connect"
                                [] a.op = "complete" -> "mark_now"
                                [] a.op = "init" -> "init"
                                [] a.op = "drop_all" -> "drop_all"
                                [] OTHER -> "get_row"]
  /\ UNCHANGED <<jobs, metadata, logs, now, txJobs, txMeta, conns, fts,
                 result_dict, ret, first, marked, tables, hist>>

\* The call ends: with a return value, or with the exception err.
Finish(p, how) ==
  /\ pc' = [pc EXCEPT ![p] = "done"]
  /\ ret' = [ret EXCEPT ![p] = how]

\* conn = ENGINE.connect()
Connect(p) ==
  /\ pc[p] = "connect"
  /\ \/ /\ conns' = [conns EXCEPT ![p] = @ + 1]
        /\ pc' = [pc EXCEPT ![p] = "begin"]
        /\ UNCHANGED ret
     \/ /\ Finish(p, "OperationalError")
        /\ UNCHANGED conns
  /\ UNCHANGED <<jobs, metadata, logs, now, args, txJobs, txMeta, fts,
                 result_dict, first, marked, tables, hist>>

\* trans = conn.begin()
Begin(p) ==
  /\ pc[p] = "begin"
  /\ pc' = [pc EXCEPT ![p] = "insert_job"]
  /\ UNCHANGED <<jobs, metadata, logs, now, args, txJobs, txMeta, conns, fts,
                 result_dict, ret, first, marked, tables, hist>>

\* conn.begin() raises: it is before the try, so nothing closes the connection.
BeginFault(p) ==
  /\ pc[p] = "begin"
  /\ conns[p] <= MaxLeaks
  /\ Finish(p, "OperationalError")
  /\ UNCHANGED <<jobs, metadata, logs, now, args, txJobs, txMeta, conns, fts,
                 result_dict, first, marked, tables, hist>>

\* How the try statement ends: trans.rollback() and raise on an exception, and
\* conn.close() in the finally clause either way.
Release(p, err) ==
  /\ txJobs' = [txJobs EXCEPT ![p] = {}]
  /\ txMeta' = [txMeta EXCEPT ![p] = {}]
  /\ conns' = [conns EXCEPT ![p] = @ - 1]
  /\ Finish(p, err)

\* Mutant: uncommitted rows of other transactions do not make an insert wait.
HeldByOtherNever(p, job_id) == FALSE

\* Whether another caller's open transaction holds an uncommitted row with this
\* primary key: the insert then waits for that transaction to end.
HeldByOther(p, job_id) == \E q \in Procs \ {p} : RowsOf(txJobs[q], job_id) # {}

\* Mutant: the jobs table has no primary key, so no insert is a duplicate.
DuplicateNever(job_id) == FALSE

\* Mutant: the primary key only counts rows that are still pending.
DuplicatePendingOnly(job_id) ==
  \E r \in RowsOf(jobs, job_id) : r.status = <<"pending">>

\* The primary key of the jobs table: a committed row has this job_id.
Duplicate(job_id) == RowsOf(jobs, job_id) # {}

\* Mutant: the insert runs on the engine, autocommitted, not on the connection.
StageJobRowAutocommit(p, row) ==
  /\ jobs' = jobs \cup {row}
  /\ UNCHANGED txJobs

\* The inserted row is held by the connection's transaction until it commits.
StageJobRow(p, row) ==
  /\ txJobs' = [txJobs EXCEPT ![p] = @ \cup {row}]
  /\ UNCHANGED jobs

\* conn.execute(JOBS_TABLE.insert().values(...))
InsertJob(p) ==
  /\ pc[p] = "insert_job"
  /\ LET row == NewJobRow(args[p], Now)
     IN \/ /\ row.sent_data = DumpError
           /\ Release(p, "TypeError")
           /\ UNCHANGED jobs
        \/ /\ row.sent_data # DumpError
           /\ BindError \in {row.job_id, row.job_type, row.result_url,
                             row.api_key, row.job_key}
           /\ Release(p, "InterfaceError")
           /\ UNCHANGED jobs
        \/ /\ row.sent_data # DumpError
           /\ BindError \notin {row.job_id, row.job_type, row.result_url,
                                row.api_key, row.job_key}
           /\ \/ /\ Exists("jobs")
                 /\ Duplicate(row.job_id)
                 /\ Release(p, "IntegrityError")
                 /\ UNCHANGED jobs
              \/ /\ Exists("jobs")
                 /\ ~Duplicate(row.job_id)
                 /\ ~HeldByOther(p, row.job_id)
                 /\ StageJobRow(p, row)
                 /\ pc' = [pc EXCEPT ![p] = "insert_meta"]
                 /\ UNCHANGED <<txMeta, conns, ret>>
              \/ /\ Release(p, "OperationalError")
                 /\ UNCHANGED jobs
  /\ UNCHANGED <<metadata, logs, now, args, fts, result_dict, first, marked,
                 tables, hist>>

\* The loop over metadata.items(), and conn.execute(METADATA_TABLE.insert(), inserts)
InsertMeta(p) ==
  /\ pc[p] = "insert_meta"
  /\ LET inserts == Inserts(args[p])
     IN \/ /\ \E r \in inserts : r.value = DumpError
           /\ Release(p, "TypeError")
        \/ /\ \A r \in inserts : r.value # DumpError
           /\ \/ /\ inserts # {} => Exists("metadata")
                 /\ txMeta' = [txMeta EXCEPT ![p] = @ \cup inserts]
                 /\ pc' = [pc EXCEPT ![p] = "commit"]
                 /\ UNCHANGED <<txJobs, conns, ret>>
              \/ /\ inserts # {}
                 /\ Release(p, "OperationalError")
  /\ UNCHANGED <<jobs, metadata, logs, now, args, fts, result_dict, first, marked,
                 tables, hist>>

\* Mutant: only the job row is committed; the metadata rows are lost.
CommitTablesJobsOnly(p) ==
  /\ jobs' = jobs \cup txJobs[p]
  /\ metadata' = metadata

\* trans.commit(): the transaction's rows become visible together.
CommitTables(p) ==
  /\ jobs' = jobs \cup txJobs[p]
  /\ metadata' = metadata \cup txMeta[p]

Commit(p) ==
  /\ pc[p] = "commit"
  /\ \/ /\ CommitTables(p)
        /\ first' = [j \in JobIds |->
                       IF ~first[j].set /\ RowsOf(txJobs[p], j) # {}
                       THEN [set |-> TRUE, a |-> args[p],
                             at |-> (CHOOSE r \in txJobs[p] : r.job_id = j)
                                      .requested_timestamp]
                       ELSE first[j]]
        /\ Release(p, "ok")
     \/ /\ Release(p, "OperationalError")
        /\ UNCHANGED <<jobs, metadata, first>>
  /\ UNCHANGED <<logs, now, args, fts, result_dict, marked, tables, hist>>


(***************************************************************************)
(* mark_job_as_completed                                                   *)
(***************************************************************************)
\* finished_timestamp = datetime.datetime.now()
MarkNow(p) ==
  /\ pc[p] = "mark_now"
  /\ fts' = [fts EXCEPT ![p] = Now]
  /\ pc' = [pc EXCEPT ![p] = "mark_update"]
  /\ UNCHANGED <<jobs, metadata, logs, now, args, txJobs, txMeta, conns,
                 result_dict, ret, first, marked, tables, hist>>

\* Mutant: api_key is left in the row.
CompletedRowKeepsApiKey(r, t, data) ==
  [r EXCEPT !.status = Complete, !.finished_timestamp = t, !.data = data]

\* Mutant: finished_timestamp is not set.
CompletedRowNoTimestamp(r, t, data) ==
  [r EXCEPT !.status = Complete, !.api_key = NULL, !.data = data]

\* Mutant: the time is written to requested_timestamp too.
CompletedRowStampsRequested(r, t, data) ==
  [r EXCEPT !.status = Complete, !.finished_timestamp = t,
            !.requested_timestamp = t, !.api_key = NULL, !.data = data]

\* The row after .values(status=status, finished_timestamp=finished_timestamp,
\* api_key=None, data=data).
CompletedRow(r, t, data) ==
  [r EXCEPT !.status = Complete, !.finished_timestamp = t, !.api_key = NULL,
            !.data = data]

\* Mutant: the UPDATE has no WHERE clause.
UpdateJobsNoWhere(job_id, t, data) == {CompletedRow(r, t, data) : r \in jobs}

\* JOBS_TABLE.update().where(JOBS_TABLE.c.job_id == job_id).values(...)
UpdateJobs(job_id, t, data) ==
  {IF r.job_id = job_id THEN CompletedRow(r, t, data) ELSE r : r \in jobs}

\* History: the data the statement was given for a job that has a row.
Marked(p) ==
  marked' = [j \in JobIds |->
               IF j = BindText(args[p].job_id) /\ RowsOf(jobs, j) # {}
               THEN [set |-> TRUE, data |-> args[p].data] ELSE marked[j]]

\* ENGINE.execute(...): one autocommitted UPDATE statement; the database is
\* unreachable, the driver cannot bind data, or the rows are updated.
MarkUpdate(p) ==
  /\ pc[p] = "mark_update"
  /\ \/ /\ BindText(args[p].data) = BindError
        /\ Finish(p, "InterfaceError")
        /\ Marked(p)
        /\ UNCHANGED jobs
     \/ /\ BindText(args[p].data) # BindError
        /\ \/ /\ Exists("jobs")
              /\ jobs' = UpdateJobs(BindText(args[p].job_id), fts[p],
                                    BindText(args[p].data))
              /\ Finish(p, "ok")
              /\ Marked(p)
           \/ /\ Finish(p, "OperationalError")
              /\ UNCHANGED <<jobs, marked>>
  /\ UNCHANGED <<metadata, logs, now, args, txJobs, txMeta, conns, fts,
                 result_dict, first, tables, hist>>

(***************************************************************************)
(* get_job                                                                 *)
(***************************************************************************)
\* datetime.isoformat()
IsoFormat(t) == PyStr(<<"T", DigitOf[t[1] + 1]>>)

\* Mutant: the JSON columns are returned as their text.
ConvertTextNoJson(field, value) == IF value = NULL THEN PyNone ELSE PyStr(value)

\* The loop over result.keys() for a text column.
ConvertText(field, value) ==
  IF value = NULL THEN PyNone
  ELSE IF field \in {"sent_data", "data", "error"} THEN json_loads(value)
  ELSE PyStr(value)

\* The loop over result.keys() for a DateTime column.
ConvertTime(value) == IF value = NullTime THEN PyNone ELSE IsoFormat(value)

TextFields ==
  {"job_id", "job_type", "status", "data", "error", "sent_data", "result_url",
   "api_key", "job_key"}
TimeFields == {"requested_timestamp", "finished_timestamp"}

\* result_dict after the loop over result.keys().
ConvertRow(r) ==
  [f \in TextFields \cup TimeFields \cup {"metadata", "logs"} |->
     CASE f \in TextFields -> ConvertText(f, r[f])
       [] f \in TimeFields -> ConvertTime(r[f])
       [] OTHER -> <<>>]

\* Mutant: no "if not result: return None", so result.keys() is called on None.
GetRowNoNoneCheck(p) ==
  /\ pc[p] = "get_row"
  /\ LET rows == RowsOf(jobs, BindText(args[p].job_id))
     IN \/ /\ Exists("jobs")
           /\ rows = {}
           /\ Finish(p, "AttributeError")
           /\ UNCHANGED result_dict
        \/ /\ Exists("jobs")
           /\ rows # {}
           /\ result_dict' =
                [result_dict EXCEPT ![p] = ConvertRow(CHOOSE r \in rows : TRUE)]
           /\ pc' = [pc EXCEPT ![p] = "get_metadata"]
           /\ UNCHANGED ret
        \/ /\ Finish(p, "OperationalError")
           /\ UNCHANGED result_dict
  /\ UNCHANGED <<jobs, metadata, logs, now, args, txJobs, txMeta, conns, fts,
                 first, marked, tables, hist>>

\* ENGINE.execute(JOBS_TABLE.select().where(...)).first() and the conversion
GetRow(p) ==
  /\ pc[p] = "get_row"
  /\ LET rows == RowsOf(jobs, BindText(args[p].job_id))
     IN \/ /\ Exists("jobs")
           /\ rows = {}
           /\ Finish(p, "None")
           /\ UNCHANGED result_dict
        \/ /\ Exists("jobs")
           /\ rows # {}
           /\ LET d == ConvertRow(CHOOSE r \in rows : TRUE)
              IN IF \E f \in TextFields : d[f] = PyRaise
                 THEN /\ Finish(p, "ValueError")
                      /\ UNCHANGED result_dict
                 ELSE /\ result_dict' = [result_dict EXCEPT ![p] = d]
                      /\ pc' = [pc EXCEPT ![p] = "get_metadata"]
                      /\ UNCHANGED ret
        \/ /\ Finish(p, "OperationalError")
           /\ UNCHANGED result_dict
  /\ UNCHANGED <<jobs, metadata, logs, now, args, txJobs, txMeta, conns, fts,
                 first, marked, tables, hist>>

\* Mutant: the value is decoded whenever it parses as JSON, whatever its type.
DecodeMetaSniff(row) ==
  IF json_loads(row.value) # PyRaise THEN json_loads(row.value)
  ELSE PyStr(row.value)

\* _get_metadata: the value of one row.
DecodeMeta(row) == IF row.type = <<"json">> THEN json_loads(row.value)
                   ELSE PyStr(row.value)

\* _get_metadata: the dict built from the metadata rows of job_id.
get_metadata(job_id) ==
  LET results == RowsOf(metadata, job_id)
  IN [key \in {r.key : r \in results} |->
        DecodeMeta(CHOOSE r \in results : r.key = key)]

GetMetadata(p) ==
  /\ pc[p] = "get_metadata"
  /\ \/ /\ Exists("metadata")
        /\ LET m == get_metadata(BindText(args[p].job_id))
           IN IF \E key \in DOMAIN m : m[key] = PyRaise
              THEN /\ Finish(p, "ValueError")
                   /\ result_dict' = [result_dict EXCEPT ![p] = EmptyResult]
              ELSE /\ result_dict' = [result_dict EXCEPT ![p].metadata = m]
                   /\ pc' = [pc EXCEPT ![p] = "get_logs"]
                   /\ UNCHANGED ret
     \/ /\ Finish(p, "OperationalError")
        /\ result_dict' = [result_dict EXCEPT ![p] = EmptyResult]
  /\ UNCHANGED <<jobs, metadata, logs, now, args, txJobs, txMeta, conns, fts,
                 first, marked, tables, hist>>

\* remove_job_id(d): d.pop('job_id')
remove_job_id(d) == [f \in DOMAIN d \ {"job_id"} |-> d[f]]

\* LOGS_TABLE.select().where(...).fetchall(): no ORDER BY, the rows come in
\* the order the table holds them.
SelectLogs(job_id) == SelectSeq(logs, LAMBDA r : r.job_id = job_id)

\* _get_logs
get_logs(job_id) ==
  LET results == SelectLogs(job_id)
  IN [i \in 1..Len(results) |-> remove_job_id(results[i])]

GetLogs(p) ==
  /\ pc[p] = "get_logs"
  /\ \/ /\ Exists("logs")
        /\ result_dict' =
             [result_dict EXCEPT ![p].logs = get_logs(BindText(args[p].job_id))]
        /\ Finish(p, "record")
     \/ /\ Finish(p, "OperationalError")
        /\ result_dict' = [result_dict EXCEPT ![p] = EmptyResult]
  /\ UNCHANGED <<jobs, metadata, logs, now, args, txJobs, txMeta, conns, fts,
                 first, marked, tables, hist>>

\* The caller takes the result and is ready for its next call.
Return(p) ==
  /\ pc[p] = "done"
  /\ pc' = [pc EXCEPT ![p] = "idle"]
  /\ args' = [args EXCEPT ![p] = NoArgs]
  /\ ret' = [ret EXCEPT ![p] = "none"]
  /\ fts' = [fts EXCEPT ![p] = NullTime]
  /\ result_dict' = [result_dict EXCEPT ![p] = EmptyResult]
  /\ UNCHANGED <<jobs, metadata, logs, now, txJobs, txMeta, conns, first, marked,
                 tables, hist>>

(***************************************************************************)
(* The logging collaborator appends a row to the logs table: its foreign   *)
(* key needs the job row, and its timestamp is the time the record was     *)
(* made, which is not after the time the row is inserted.                  *)
(***************************************************************************)
LogRow(job_id, t) ==
  [job_id |-> job_id, timestamp |-> <<t>>, message |-> <<"m">>,
   level |-> <<"I">>, module |-> <<"w">>, funcName |-> <<"f">>, lineno |-> 7]

AppendLog(job_id, t) ==
  /\ Len(logs) < MaxLogs
  /\ Exists("logs")
  /\ RowsOf(jobs, job_id) # {}
  /\ t \in 1..now
  /\ logs' = Append(logs, LogRow(job_id, t))
  /\ UNCHANGED <<jobs, metadata, now, pc, args, txJobs, txMeta, conns, fts,
                 result_dict, ret, first, marked, tables, hist>>

(***************************************************************************)
(* init and drop_all                                                       *)
(***************************************************************************)
\* Mutant: create_all drops a table that exists and creates it again.
CreateAllFresh(table, name, empty) == empty

\* _METADATA.create_all(ENGINE) checks first: a table that exists is left as it
\* is, with its rows, and a table that does not exist is created empty.
CreateAll(table, name, empty) == IF Exists(name) THEN table ELSE empty

\* init(uri): new engine, metadata and table objects, and create_all; or the
\* database cannot be reached.
init(p) ==
  /\ pc[p] = "init"
  /\ \/ /\ tables' = AllTables
        /\ jobs' = CreateAll(jobs, "jobs", {})
        /\ metadata' = CreateAll(metadata, "metadata", {})
        /\ logs' = CreateAll(logs, "logs", <<>>)
        /\ hist' = [hist EXCEPT !.init = (jobs # {})]
        /\ Finish(p, "ok")
     \/ /\ Finish(p, "OperationalError")
        /\ UNCHANGED <<jobs, metadata, logs, tables, hist>>
  /\ UNCHANGED <<now, args, txJobs, txMeta, conns, fts, result_dict, first,
                 marked>>

\* drop_all(): _METADATA is set, and _METADATA.drop_all(ENGINE) drops the three
\* tables with their rows.
drop_all(p) ==
  /\ pc[p] = "drop_all"
  /\ \/ /\ tables' = {}
        /\ jobs' = {}
        /\ metadata' = {}
        /\ logs' = <<>>
        /\ first' = [j \in JobIds |-> NoFirst]
        /\ marked' = [j \in JobIds |-> NoMark]
        /\ hist' = NoHist
        /\ Finish(p, "ok")
     \/ /\ Finish(p, "OperationalError")
        /\ UNCHANGED <<jobs, metadata, logs, tables, first, marked, hist>>
  /\ UNCHANGED <<now, args, txJobs, txMeta, conns, fts, result_dict>>

(***************************************************************************)
(* The administrative delete of a job: one DELETE on the jobs table.  The  *)
(* foreign keys of the metadata and logs tables are declared with          *)
(* ondelete="CASCADE", so the database deletes the job's rows there too.   *)
(***************************************************************************)
\* Mutant: the foreign key of the metadata table has no ondelete rule.
CascadeMetadataNone(job_id) == metadata

\* sqlalchemy.ForeignKey("jobs.job_id", ondelete="CASCADE") of metadata.job_id
CascadeMetadata(job_id) == metadata \ RowsOf(metadata, job_id)

\* sqlalchemy.ForeignKey("jobs.job_id", ondelete="CASCADE") of logs.job_id
CascadeLogs(job_id) == SelectSeq(logs, LAMBDA r : r.job_id # job_id)

DeleteJob(job_id) ==
  /\ Exists("jobs")
  /\ RowsOf(jobs, job_id) # {}
  /\ jobs' = jobs \ RowsOf(jobs, job_id)
  /\ metadata' = CascadeMetadata(job_id)
  /\ logs' = CascadeLogs(job_id)
  /\ first' = [first EXCEPT ![job_id] = NoFirst]
  /\ marked' = [marked EXCEPT ![job_id] = NoMark]
  /\ hist' = [hist EXCEPT !.gone =
                 IF /\ RowsOf(metadata, job_id) # {}
                    /\ \E i \in 1..Len(logs) : logs[i].job_id = job_id
                 THEN @ \cup {job_id} ELSE @]
  /\ UNCHANGED <<now, pc, args, txJobs, txMeta, conns, fts, result_dict, ret,
                 tables>>

\* One step of add_pending_job, of mark_job_as_completed, of get_job.
CreateStep(p) ==
  \/ Connect(p)
  \/ Begin(p)
  \/ InsertJob(p)
  \/ InsertMeta(p)
  \/ Commit(p)

MarkStep(p) ==
  \/ MarkNow(p)
  \/ MarkUpdate(p)

GetStep(p) ==
  \/ GetRow(p)
  \/ GetMetadata(p)
  \/ GetLogs(p)

\* One step of a caller's call.
Step(p) ==
  \/ CreateStep(p)
  \/ MarkStep(p)
  \/ GetStep(p)
  \/ Return(p)


(***************************************************************************)
(* The calls the callers make.                                             *)
(***************************************************************************)
Str(c) == PyStr(<<c>>)
X1 == PyDict(<<Str("x"), PyInt("1")>>)
L12 == PyList(<<PyInt("1"), PyInt("2")>>)
\* A string that is also JSON text.
SJson == PyStr(<<"[", "1", "]">>)

KeyA == <<"a">>
KeyB == <<"b">>
KeyC == <<"c">>

\* Metadata maps: strings, a string that looks like JSON, structured values,
\* and one with a value json cannot serialise.
MdPlain == Dict((KeyA :> Str("s")) @@ (KeyB :> L12))
MdJsonLike == Dict(KeyA :> SJson)
MdMixed == Dict((KeyA :> X1) @@ (KeyB :> PyNone) @@ (KeyC :> PyInt("1")))
MdBad == Dict((KeyB :> Str("s")) @@ (KeyC :> PyObj))

\* Two callers creating, completing and reading one job.
Requests ==
  {CreateArgs(J1, Str("a"), Str("x"), Str("s"), X1, MdPlain, Str("u")),
   CreateArgs(J1, Str("b"), Str("y"), Str("t"), PyNone, MdJsonLike, PyNone),
   CreateArgs(J1, Str("c"), Str("z"), Str("r"), L12, MdBad, Str("v")),
   CompleteArgs(J1, PyNone),
   CompleteArgs(J1, SJson),
   GetArgs(J1)}

Next ==
  \/ \E p \in Procs, a \in Requests : Call(p, a)
  \/ \E p \in Procs : Step(p)
  \/ Tick

Spec == Init /\ [][Next]_vars


(***************************************************************************)
(* One caller, every shape of data and metadata.                           *)
(***************************************************************************)
Create1(data, md, result_url) ==
  CreateArgs(J1, Str("a"), Str("x"), Str("s"), data, md, result_url)

SeqRequests ==
  {Create1(X1, MdPlain, Str("u")),
   Create1(PyNone, NoDict, PyNone),
   Create1(PyDict(<<>>), Dict(<<>>), Str("u")),
   Create1(PyList(<<>>), MdJsonLike, PyNone),
   Create1(L12, MdMixed, Str("u")),
   Create1(PyInt("0"), MdPlain, PyNone),
   Create1(PyInt("1"), NoDict, Str("u")),
   Create1(PyStr(<<>>), MdJsonLike, Str("u")),
   Create1(Str("s"), MdMixed, PyNone),
   Create1(PyObj, MdPlain, Str("u")),
   Create1(X1, MdBad, Str("u")),
   CompleteArgs(J1, PyNone),
   CompleteArgs(J1, X1),
   CompleteArgs(J1, Str("s")),
   CompleteArgs(J1, SJson),
   CompleteArgs(J1, PyInt("1")),
   GetArgs(J1)}

SeqNext ==
  \/ \E a \in SeqRequests : Call(P1, a)
  \/ Step(P1)
  \/ BeginFault(P1)
  \/ Tick

SeqSpec == Init /\ [][SeqNext]_vars

(***************************************************************************)
(* One caller, two jobs and the logging collaborator.                      *)
(***************************************************************************)
LogRequests ==
  {CreateArgs(J1, Str("a"), Str("x"), Str("s"), X1, MdPlain, Str("u")),
   CreateArgs(J2, Str("b"), Str("y"), Str("t"), L12, MdJsonLike, PyNone),
   GetArgs(J1),
   GetArgs(J2)}

LogNext ==
  \/ \E a \in LogRequests : Call(P1, a)
  \/ CreateStep(P1)
  \/ GetStep(P1)
  \/ Return(P1)
  \/ \E j \in JobIds, t \in 1..MaxClock : AppendLog(j, t)
  \/ Tick

LogSpec == Init /\ [][LogNext]_vars

(***************************************************************************)
(* Two callers completing one job, with every kind of result data.         *)
(***************************************************************************)
RaceRequests ==
  {CreateArgs(J1, Str("a"), Str("x"), Str("s"), X1, MdPlain, Str("u")),
   CompleteArgs(J1, PyNone),
   CompleteArgs(J1, SJson),
   CompleteArgs(J1, X1)}

RaceNext ==
  \/ \E p \in Procs, a \in RaceRequests : Call(p, a)
  \/ \E p \in Procs : CreateStep(p) \/ MarkStep(p) \/ Return(p)
  \/ Tick

RaceSpec == Init /\ [][RaceNext]_vars

(***************************************************************************)
(* One caller, two jobs and the logging collaborator: what a call leaves   *)
(* alone.                                                                  *)
(***************************************************************************)
FrameRequests ==
  {CreateArgs(J1, Str("a"), Str("x"), Str("s"), X1, MdPlain, Str("u")),
   CreateArgs(J2, Str("b"), Str("y"), Str("t"), PyNone, MdJsonLike, PyNone),
   CompleteArgs(J1, PyNone),
   CompleteArgs(J2, SJson),
   CompleteArgs(J2, X1),
   GetArgs(J1),
   GetArgs(J2)}

FrameNext ==
  \/ \E a \in FrameRequests : Call(P1, a)
  \/ Step(P1)
  \/ \E j \in JobIds : AppendLog(j, 1)
  \/ Tick

FrameSpec == Init /\ [][FrameNext]_vars

(***************************************************************************)
(* One caller, two jobs, the logging collaborator, and the administrative  *)
(* operations: init again, drop_all, and the delete of a job.              *)
(***************************************************************************)
AdminRequests ==
  {CreateArgs(J1, Str("a"), Str("x"), Str("s"), X1, MdPlain, Str("u")),
   CreateArgs(J2, Str("b"), Str("y"), Str("t"), PyNone, MdJsonLike, PyNone),
   GetArgs(J1),
   GetArgs(J2),
   InitArgs,
   DropArgs}

AdminNext ==
  \/ \E a \in AdminRequests : Call(P1, a)
  \/ CreateStep(P1)
  \/ GetStep(P1)
  \/ Return(P1)
  \/ init(P1)
  \/ drop_all(P1)
  \/ \E j \in JobIds : DeleteJob(j)
  \/ \E j \in JobIds : AppendLog(j, now)

AdminSpec == Init /\ [][AdminNext]_vars

(***************************************************************************)
(* Properties.                                                             *)
(***************************************************************************)
Error == <<"error">>
Terminal == {Complete, Error}

TheJob(j) == CHOOSE r \in jobs : r.job_id = j

CreateDone(p) == pc[p] = "done" /\ args[p].op = "create"
GetDone(p) == pc[p] = "done" /\ args[p].op = "get"

\* The fields of a jobs row that add_pending_job writes and nothing updates.
CreationFields ==
  {"job_id", "job_type", "sent_data", "requested_timestamp", "result_url",
   "job_key"}

SameCreation(r1, r2) == \A f \in CreationFields : r1[f] = r2[f]

\* C1: in every state, the committed tables (what any other caller can read)
\* hold for each job_id either no job row and no metadata row, or exactly one
\* job row and exactly the metadata rows of the call that committed it; a
\* call that failed has left none of its rows behind.
C1_CreateJobAllOrNothing ==
  /\ \A j \in JobIds :
       IF RowsOf(jobs, j) = {} THEN RowsOf(metadata, j) = {}
       ELSE /\ Cardinality(RowsOf(jobs, j)) = 1
            /\ first[j].set
            /\ RowsOf(metadata, j) = Inserts(first[j].a)
  /\ \A p \in Procs :
       CreateDone(p) => /\ txJobs[p] = {} /\ txMeta[p] = {}
                        /\ (ret[p] # "ok" /\ ~first[args[p].job_id.s].set
                              => /\ RowsOf(jobs, args[p].job_id.s) = {}
                                 /\ RowsOf(metadata, args[p].job_id.s) = {})

\* A call failed while encoding its metadata, after its job row was inserted,
\* and neither table holds a row of it.
C1_Witness ==
  \E p \in Procs :
    /\ CreateDone(p) /\ ret[p] = "TypeError" /\ args[p].metadata = MdBad
    /\ RowsOf(jobs, J1) = {} /\ RowsOf(metadata, J1) = {}

\* C2: when add_pending_job's insert runs for a job_id that has a committed
\* row, the call ends there with IntegrityError (or the storage fault
\* OperationalError) and the step changes neither table; and no step ever
\* changes the creation fields or the metadata rows of a stored job.
C2_DuplicateCreateFails ==
  [][/\ \A p \in Procs :
          (/\ pc[p] = "insert_job" /\ pc'[p] # "insert_job"
           /\ RowsOf(jobs, args[p].job_id.s) # {})
            => /\ ret'[p] \in {"IntegrityError", "OperationalError"}
               /\ pc'[p] = "done"
               /\ jobs' = jobs /\ metadata' = metadata
     /\ \A r \in jobs :
          /\ \A r2 \in RowsOf(jobs', r.job_id) : SameCreation(r, r2)
          /\ RowsOf(jobs', r.job_id) # {}
          /\ RowsOf(metadata', r.job_id) = RowsOf(metadata, r.job_id)]_vars

\* A second call with other arguments ended with IntegrityError, and the row
\* and the metadata are those of the first call.
C2_Witness ==
  \E p \in Procs :
    /\ CreateDone(p) /\ ret[p] = "IntegrityError" /\ args[p].job_existed
    /\ first[J1].set /\ first[J1].a.job_type # args[p].job_type
    /\ SameCreation(TheJob(J1), NewJobRow(first[J1].a, first[J1].at))
    /\ RowsOf(metadata, J1) = Inserts(first[J1].a)
    /\ RowsOf(metadata, J1) # Inserts(args[p])

\* C3: of two add_pending_job calls for one job_id that both began before
\* the job had a row and that both ended with success or IntegrityError (no
\* storage fault, no value json cannot encode), exactly one succeeded, and
\* the stored row and metadata rows are those of the successful call.
C3_ConcurrentCreateOneWinner ==
  \A p \in Procs : \A q \in Procs \ {p} :
    (/\ CreateDone(p) /\ CreateDone(q)
     /\ args[p].job_id = args[q].job_id
     /\ ~args[p].job_existed /\ ~args[q].job_existed
     /\ ret[p] \in {"ok", "IntegrityError"}
     /\ ret[q] \in {"ok", "IntegrityError"})
      => /\ (ret[p] = "ok") # (ret[q] = "ok")
         /\ ret[p] = "ok" =>
              /\ Cardinality(RowsOf(jobs, args[p].job_id.s)) = 1
              /\ \E t \in 1..MaxClock :
                   SameCreation(TheJob(args[p].job_id.s), NewJobRow(args[p], <<t>>))
              /\ RowsOf(metadata, args[p].job_id.s) = Inserts(args[p])

\* Two calls with different arguments raced for one job_id: one succeeded,
\* the other got IntegrityError.
C3_Witness ==
  /\ CreateDone(P1) /\ CreateDone(P2)
  /\ ~args[P1].job_existed /\ ~args[P2].job_existed
  /\ ret[P1] = "ok" /\ ret[P2] = "IntegrityError"
  /\ args[P1].job_type # args[P2].job_type

\* C5: every stored job with a terminal status has api_key NULL, so api_key
\* is set only on pending jobs, and no get_job reads a terminal row with an
\* api_key.
C5_TerminalHasNoApiKey ==
  /\ \A r \in jobs :
       /\ r.status \in Terminal => r.api_key = NULL
       /\ r.api_key # NULL => r.status = Pending
  /\ \A p \in Procs :
       (GetDone(p) /\ ret[p] = "record"
        /\ result_dict[p].status \in {PyStr(Complete), PyStr(Error)})
         => result_dict[p].api_key = PyNone

\* get_job returned a completed job that was created with an api_key.
C5_Witness ==
  \E p \in Procs :
    /\ GetDone(p) /\ ret[p] = "record"
    /\ result_dict[p].status = PyStr(Complete)
    /\ result_dict[p].api_key = PyNone
    /\ first[J1].a.api_key # PyNone

\* C8 as claimed: once a job is terminal, no step changes its row.
C8_TerminalRowNeverChanges ==
  [][\A r \in jobs : r.status \in Terminal => r \in jobs']_vars

\* C8 amended: once a job is terminal, every step leaves its status, api_key,
\* error and creation fields as they are; finished_timestamp and data change
\* only by a further mark_job_as_completed, which overwrites them with its own.
C8_TerminalRowOnlyRecompleted ==
  [][\A r \in jobs :
       r.status \in Terminal =>
         /\ Cardinality(RowsOf(jobs', r.job_id)) = 1
         /\ LET r2 == CHOOSE x \in jobs' : x.job_id = r.job_id
            IN /\ r2 = [r EXCEPT !.finished_timestamp = r2.finished_timestamp,
                                 !.data = r2.data]
               /\ r2 # r =>
                    \E p \in Procs :
                      /\ pc[p] = "mark_update" /\ pc'[p] = "done"
                      /\ r2.finished_timestamp = fts[p]
                      /\ r2.data = BindText(args[p].data)]_vars

\* A completed job was completed again, later and with other data.
C8_Witness ==
  \E p \in Procs : \E q \in Procs \ {p} :
    /\ pc[p] = "done" /\ args[p].op = "complete" /\ ret[p] = "ok"
    /\ pc[q] = "done" /\ args[q].op = "complete" /\ ret[q] = "ok"
    /\ args[p].data # args[q].data
    /\ RowsOf(jobs, J1) # {}
    /\ TheJob(J1).data = BindText(args[p].data)
    /\ TheJob(J1).finished_timestamp = fts[p]
    /\ fts[q] # fts[p]

\* C9: a stored job has a finished_timestamp exactly when its status is
\* terminal, in the table and in every record get_job returns.
C9_FinishedIffTerminal ==
  /\ \A r \in jobs : (r.finished_timestamp # NullTime) <=> (r.status \in Terminal)
  /\ \A p \in Procs :
       (GetDone(p) /\ ret[p] = "record") =>
         ((result_dict[p].finished_timestamp # PyNone)
            <=> (result_dict[p].status \in {PyStr(Complete), PyStr(Error)}))

\* A job was completed at a later time than it was requested, and its row
\* has that finished_timestamp.
C9_Witness ==
  /\ RowsOf(jobs, J1) # {}
  /\ TheJob(J1).status = Complete
  /\ TheJob(J1).finished_timestamp # NullTime
  /\ TheJob(J1).finished_timestamp # TheJob(J1).requested_timestamp

\* The metadata map a call passes: None stands for the empty map.
MetadataPassed(a) == IF a.metadata.none THEN <<>> ELSE a.metadata.d

\* C4 as claimed: after mark_job_as_completed(job_id, data) on a stored job,
\* a get_job that reaches the database returns a record with status
\* "complete" and data equal to the data passed.
C4_CompleteThenGetReturnsData ==
  \A p \in Procs :
    (GetDone(p) /\ marked[args[p].job_id.s].set /\ ret[p] # "OperationalError")
      => /\ ret[p] = "record"
         /\ result_dict[p].status = PyStr(Complete)
         /\ result_dict[p].data = marked[args[p].job_id.s].data

\* C6 as claimed: add_pending_job followed by get_job returns the inputs,
\* sent_data being the data passed ({} for the default None).
C6_CreateThenGetReturnsInputs ==
  \A p \in Procs :
    LET j == args[p].job_id.s
        a == first[j].a
        d == result_dict[p]
    IN (GetDone(p) /\ first[j].set /\ ~marked[j].set /\ ret[p] = "record")
         => /\ d.job_id = a.job_id /\ d.job_type = a.job_type
            /\ d.job_key = a.job_key /\ d.api_key = a.api_key
            /\ d.result_url = a.result_url
            /\ d.sent_data = (IF a.data = PyNone THEN PyDict(<<>>) ELSE a.data)
            /\ d.metadata = MetadataPassed(a)
            /\ d.status = PyStr(Pending)

\* C6 amended: add_pending_job followed by get_job (no completion between)
\* returns a record, unless the database is unreachable, with job_id,
\* job_type, job_key, api_key and result_url equal to the inputs, sent_data
\* equal to the data passed when that is truthy and {} when it is empty or
\* falsy (None, {}, [], "", 0), metadata equal to the metadata passed, status
\* "pending", requested_timestamp set, and data, error and finished_timestamp
\* None.
C6_CreateThenGetReturnsNormalised ==
  \A p \in Procs :
    LET j == args[p].job_id.s
        a == first[j].a
        d == result_dict[p]
    IN (GetDone(p) /\ first[j].set /\ ~marked[j].set)
         => /\ ret[p] \in {"record", "OperationalError"}
            /\ ret[p] = "record" =>
                 /\ d.job_id = a.job_id /\ d.job_type = a.job_type
                 /\ d.job_key = a.job_key /\ d.api_key = a.api_key
                 /\ d.api_key # PyNone
                 /\ d.result_url = a.result_url
                 /\ d.sent_data = (IF Truthy(a.data) THEN a.data ELSE PyDict(<<>>))
                 /\ d.metadata = MetadataPassed(a)
                 /\ d.status = PyStr(Pending)
                 /\ d.requested_timestamp = PyStr(<<"T", DigitOf[first[j].at[1] + 1]>>)
                 /\ d.data = PyNone /\ d.error = PyNone
                 /\ d.finished_timestamp = PyNone

\* get_job returned {} as the sent_data of a job created with data [].
C6_Witness ==
  \E p \in Procs :
    /\ GetDone(p) /\ ret[p] = "record" /\ ~marked[J1].set
    /\ first[J1].a.data = PyList(<<>>)
    /\ result_dict[p].sent_data = PyDict(<<>>)
    /\ result_dict[p].metadata = MdJsonLike.d

\* C7: each metadata value of a committed call is stored in one row, a string
\* unchanged with type "string" and any other value as its JSON text with
\* type "json", and every record get_job returns has the metadata map that
\* was passed, each value equal to the original and of the same kind.
C7_MetadataRoundTrip ==
  /\ \A j \in JobIds :
       first[j].set =>
         LET m == MetadataPassed(first[j].a)
         IN /\ {r.key : r \in RowsOf(metadata, j)} = DOMAIN m
            /\ Cardinality(RowsOf(metadata, j)) = Cardinality(DOMAIN m)
            /\ \A r \in RowsOf(metadata, j) :
                 IF m[r.key].k = "str"
                 THEN r.type = <<"string">> /\ r.value = m[r.key].s
                 ELSE r.type = <<"json">> /\ r.value = json_dumps(m[r.key])
  /\ \A p \in Procs :
       (GetDone(p) /\ ret[p] = "record")
         => result_dict[p].metadata = MetadataPassed(first[args[p].job_id.s].a)

\* get_job returned the string "[1]" for a metadata value passed as the
\* string "[1]", and the structured values of another map.
C7_Witness ==
  \E p \in Procs :
    /\ GetDone(p) /\ ret[p] = "record"
    /\ first[J1].a.metadata = MdJsonLike
    /\ result_dict[p].metadata[KeyA] = SJson
    /\ \E r \in RowsOf(metadata, J1) : r.type = <<"string">> /\ r.value = SJson.s

\* C10 as claimed: the logs of a record get_job returns are in ascending
\* timestamp order, without job_id and with the other six fields.
C10_LogsOrderedByTimestamp ==
  \A p \in Procs :
    (GetDone(p) /\ ret[p] = "record") =>
      LET l == result_dict[p].logs
      IN /\ \A i \in 1..Len(l) : \A k \in i..Len(l) :
              l[i].timestamp[1] <= l[k].timestamp[1]
         /\ \A i \in 1..Len(l) :
              DOMAIN l[i] = {"timestamp", "message", "level", "module",
                             "funcName", "lineno"}

\* C11: when get_job's select finds no row for the job_id, the call ends
\* there and returns None (it raises only if the database itself fails, with
\* OperationalError), whatever other jobs are stored, pending or complete; and
\* no step of a get_job call changes the jobs, metadata or logs table.
C11_GetAbsentReturnsNone ==
  [][\A p \in Procs :
       /\ (/\ pc[p] = "get_row" /\ pc'[p] # "get_row"
           /\ RowsOf(jobs, args[p].job_id.s) = {})
            => /\ pc'[p] = "done"
               /\ ret'[p] \in {"None", "OperationalError"}
       /\ (args[p].op = "get" /\ pc'[p] # pc[p])
            => jobs' = jobs /\ metadata' = metadata /\ logs' = logs]_vars

\* get_job returned None for a job that has no row, while another job is
\* stored complete with metadata and log rows.
C11_Witness ==
  /\ GetDone(P1) /\ ret[P1] = "None" /\ args[P1].job_id = PyStr(J2)
  /\ RowsOf(jobs, J2) = {}
  /\ RowsOf(jobs, J1) # {} /\ TheJob(J1).status = Complete
  /\ RowsOf(metadata, J1) # {}
  /\ \E i \in 1..Len(logs) : logs[i].job_id = J1

\* C12 as claimed: mark_job_as_completed for a job_id that has no row raises
\* no error (other than the database's own failure) and changes no row of the
\* jobs, metadata and logs tables, so the job still has no row afterwards.
C12_CompleteAbsentIsNoOp ==
  [][\A p \in Procs :
       (/\ pc[p] = "mark_update" /\ pc'[p] = "done"
        /\ RowsOf(jobs, args[p].job_id.s) = {})
         => /\ ret'[p] \in {"ok", "OperationalError"}
            /\ jobs' = jobs /\ metadata' = metadata /\ logs' = logs]_vars

\* C13: in every state each metadata row and each log row has the job_id of
\* a stored job; and a step that deletes a job's row (the tables staying)
\* leaves no metadata row and no log row of that job and leaves the rows of
\* every other job as they were.
C13_ReferentialIntegrity ==
  /\ [](/\ \A r \in metadata : RowsOf(jobs, r.job_id) # {}
        /\ \A i \in 1..Len(logs) : RowsOf(jobs, logs[i].job_id) # {})
  /\ [][\A j \in JobIds :
          (RowsOf(jobs, j) # {} /\ RowsOf(jobs', j) = {} /\ tables' = tables)
            => /\ RowsOf(metadata', j) = {}
               /\ \A i \in 1..Len(logs') : logs'[i].job_id # j
               /\ \A k \in JobIds \ {j} :
                    /\ RowsOf(jobs', k) = RowsOf(jobs, k)
                    /\ RowsOf(metadata', k) = RowsOf(metadata, k)
                    /\ SelectSeq(logs', LAMBDA r : r.job_id = k)
                         = SelectSeq(logs, LAMBDA r : r.job_id = k)]_vars

\* A job that had metadata rows and log rows was deleted and has no row left
\* in any table, while the other job still has its job, metadata and log rows.
C13_Witness ==
  /\ J1 \in hist.gone
  /\ RowsOf(jobs, J1) = {} /\ RowsOf(metadata, J1) = {}
  /\ \A i \in 1..Len(logs) : logs[i].job_id # J1
  /\ RowsOf(jobs, J2) # {} /\ RowsOf(metadata, J2) # {}
  /\ \E i \in 1..Len(logs) : logs[i].job_id = J2

\* What get_job(job_id) returns when its three queries read the tables as
\* they are: None (here the empty record) or the converted row with the
\* metadata and the logs.
Record(j) ==
  IF RowsOf(jobs, j) = {} THEN <<>>
  ELSE [ConvertRow(TheJob(j)) EXCEPT !.metadata = get_metadata(j),
                                     !.logs = get_logs(j)]

\* C14: an init call on a database whose three tables exist, whether it
\* succeeds or fails, leaves every jobs, metadata and logs row as it was and
\* the tables in place, so get_job returns for every job the record it
\* returned before the call.
C14_InitKeepsRows ==
  [][\A p \in Procs :
       (pc[p] = "init" /\ pc'[p] = "done" /\ tables = AllTables)
         => /\ jobs' = jobs /\ metadata' = metadata /\ logs' = logs
            /\ tables' = AllTables
            /\ \A j \in JobIds : Record(j)' = Record(j)]_vars

\* After init ran again over stored rows, get_job returned a job's record
\* with its metadata and a log row.
C14_Witness ==
  /\ hist.init
  /\ GetDone(P1) /\ ret[P1] = "record" /\ args[P1].job_id = PyStr(J1)
  /\ result_dict[P1] = Record(J1)
  /\ result_dict[P1].metadata = MdPlain.d
  /\ Len(result_dict[P1].logs) > 0

\* C15 as claimed: when add_pending_job has returned or raised, on whatever
\* path, the caller holds no open connection and no open transaction.
C15_ConnectionReleased ==
  \A p \in Procs :
    CreateDone(p) => /\ conns[p] = 0
                     /\ txJobs[p] = {} /\ txMeta[p] = {}

\* The columns of a jobs row that mark_job_as_completed does not set.
KeptFields ==
  {"job_id", "job_type", "sent_data", "error", "requested_timestamp",
   "result_url", "job_key"}

\* C16: the step in which mark_job_as_completed's UPDATE runs leaves the
\* metadata and logs tables as they are, adds and removes no jobs row, leaves
\* every row of another job_id as it is, and in the row of its job_id leaves
\* job_id, job_type, sent_data, error, requested_timestamp, result_url and
\* job_key as they are; when the call succeeds, the other four columns of
\* that row are status "complete", the call's finished_timestamp, api_key
\* NULL and the call's data.
C16_CompleteChangesFourFields ==
  [][\A p \in Procs :
       (pc[p] = "mark_update" /\ pc'[p] = "done")
         => /\ metadata' = metadata /\ logs' = logs
            /\ Cardinality(jobs') = Cardinality(jobs)
            /\ \A r \in jobs :
                 \E r2 \in jobs' :
                   /\ r2.job_id = r.job_id
                   /\ r.job_id # args[p].job_id.s => r2 = r
                   /\ \A f \in KeptFields : r2[f] = r[f]
                   /\ (r.job_id = args[p].job_id.s /\ ret'[p] = "ok")
                        => /\ r2.status = Complete
                           /\ r2.finished_timestamp = fts[p]
                           /\ r2.api_key = NULL
                           /\ r2.data = BindText(args[p].data)]_vars

\* One job was completed, later than it was requested, while the other job
\* is pending with its api_key, and both have metadata and log rows.
C16_Witness ==
  /\ pc[P1] = "done" /\ args[P1].op = "complete" /\ ret[P1] = "ok"
  /\ args[P1].job_id = PyStr(J2)
  /\ RowsOf(jobs, J1) # {} /\ RowsOf(jobs, J2) # {}
  /\ TheJob(J2).status = Complete /\ TheJob(J2).data = SJson.s
  /\ TheJob(J2).finished_timestamp # TheJob(J2).requested_timestamp
  /\ TheJob(J2).job_key = <<"b">>
  /\ TheJob(J1).status = Pending /\ TheJob(J1).api_key = <<"s">>
  /\ RowsOf(metadata, J1) # {} /\ RowsOf(metadata, J2) # {}
  /\ Len(logs) = MaxLogs

\* C17: a row that appears in the jobs table is pending; in every step a
\* stored row keeps its status or goes from pending to a terminal status,
\* and no second row with its job_id appears; and once a get_job has read a
\* job as complete, the stored job is complete, so no later read sees it
\* pending.
C17_StatusMovesForward ==
  /\ [](\A p \in Procs :
          (/\ args[p].op = "get"
           /\ pc[p] \in {"get_metadata", "get_logs", "done"}
           /\ result_dict[p].status \in {PyStr(Complete), PyStr(Error)})
            => \A r \in RowsOf(jobs, args[p].job_id.s) : r.status \in Terminal)
  /\ [][/\ \A r2 \in jobs' :
             RowsOf(jobs, r2.job_id) = {} => r2.status = Pending
        /\ \A r \in jobs :
             /\ Cardinality(RowsOf(jobs', r.job_id)) = 1
             /\ \A r2 \in RowsOf(jobs', r.job_id) :
                  \/ r2.status = r.status
                  \/ r.status = Pending /\ r2.status \in Terminal]_vars

\* An add_pending_job for a job that was already stored failed with
\* IntegrityError, and the job, completed and read as complete, is complete.
C17_Witness ==
  \E p \in Procs : \E q \in Procs \ {p} :
    /\ CreateDone(p) /\ ret[p] = "IntegrityError" /\ args[p].job_existed
    /\ args[p] # first[J1].a
    /\ GetDone(q) /\ ret[q] = "record"
    /\ result_dict[q].status = PyStr(Complete)
    /\ marked[J1].set
    /\ RowsOf(jobs, J1) # {} /\ TheJob(J1).status = Complete

\* C18 as claimed: when two mark_job_as_completed calls for a job that was
\* stored when they began, with different data, have both ended (the
\* database itself not failing), neither has failed, and the row has status
\* "complete", api_key NULL, and the finished_timestamp and the data of one
\* and the same call.
C18_ConcurrentCompleteLastWins ==
  \A p \in Procs : \A q \in Procs \ {p} :
    (/\ pc[p] = "done" /\ args[p].op = "complete" /\ args[p].job_existed
     /\ pc[q] = "done" /\ args[q].op = "complete" /\ args[q].job_existed
     /\ args[p].job_id = args[q].job_id
     /\ args[p].data # args[q].data
     /\ ret[p] # "OperationalError" /\ ret[q] # "OperationalError")
      => /\ ret[p] = "ok" /\ ret[q] = "ok"
         /\ \A r \in RowsOf(jobs, args[p].job_id.s) :
              /\ r.status = Complete
              /\ r.api_key = NULL
              /\ \E w \in {p, q} : /\ r.finished_timestamp = fts[w]
                                   /\ r.data = BindText(args[w].data)

\* The fields of a get_job record that no call changes after the creation.
StableFields ==
  {"job_id", "job_type", "sent_data", "error", "requested_timestamp",
   "result_url", "job_key", "metadata"}

\* C19: under every interleaving with add_pending_job and
\* mark_job_as_completed calls of another caller, every record get_job
\* returns has the whole metadata map of the call that created the job and
\* that call's job_id, job_type, job_key, result_url and sent_data, and two
\* records returned for one job agree on every field other than status,
\* finished_timestamp, api_key, data and logs.
C19_GetSeesWholeMetadata ==
  /\ \A p \in Procs :
       (GetDone(p) /\ ret[p] = "record")
         => LET j == args[p].job_id.s
                a == first[j].a
                d == result_dict[p]
            IN /\ first[j].set
               /\ d.metadata = MetadataPassed(a)
               /\ DOMAIN d.metadata = DOMAIN MetadataOf(a)
               /\ d.job_id = a.job_id /\ d.job_type = a.job_type
               /\ d.job_key = a.job_key /\ d.result_url = a.result_url
               /\ d.sent_data = (IF Truthy(a.data) THEN a.data ELSE PyDict(<<>>))
               /\ d.requested_timestamp = IsoFormat(first[j].at)
  /\ \A p \in Procs : \A q \in Procs \ {p} :
       (/\ GetDone(p) /\ ret[p] = "record"
        /\ GetDone(q) /\ ret[q] = "record"
        /\ args[p].job_id = args[q].job_id)
         => \A f \in StableFields : result_dict[p][f] = result_dict[q][f]

\* Two get_job calls returned the same job, one as pending and one as
\* complete (the completion landed between the first call's queries or
\* after them), both with the whole metadata map of the creating call.
C19_Witness ==
  \E p \in Procs : \E q \in Procs \ {p} :
    /\ GetDone(p) /\ ret[p] = "record"
    /\ GetDone(q) /\ ret[q] = "record"
    /\ result_dict[p].status = PyStr(Pending)
    /\ result_dict[p].api_key # PyNone
    /\ result_dict[q].status = PyStr(Complete)
    /\ result_dict[q].data # PyNone
    /\ first[J1].a.metadata = MdPlain
    /\ result_dict[p].metadata = MdPlain.d
    /\ result_dict[q].metadata = MdPlain.d

====
